---- MODULE Spec2Model ----
(***************************************************************************)
(* cube-tui: the stopwatch (src/src/timer.rs, CubeTimer) and the event     *)
(* loop that drives it (src/src/ui/mod.rs, run).                           *)
(*                                                                         *)
(* Durations and instants are integers, in milliseconds.  The monotonic    *)
(* clock is the variable now; it advances on its own between two           *)
(* statements of the loop (Advance) and while event::poll blocks.          *)
(* Option<T> is a sequence: <<>> is None, <<v>> is Some(v).                *)
(***************************************************************************)
EXTENDS Integers, Sequences, FiniteSets, TLC

\* ---------------------------------------------------------------- bounds
\* the clock stops advancing after MaxSteps grains
MaxSteps == 11
\* the loop takes no further solve once the history holds MaxSolves records
MaxSolves == 2
\* the statistics are followed up to a history of MaxRecords records
MaxRecords == 12
\* the first MaxVaried of them take any of three times, the later ones the
\* shortest or the longest
MaxVaried == 5

\* ------------------------------------------------------ program constants
\* Duration::from_millis(1000), the argument of App::new
INIT_TICK_MS == 1000
\* Duration::from_millis(1000), set when a solve is completed
SLOW_MS == 1000
\* Duration::from_millis(100), set when the timer starts
FAST_MS == 100

\* one grain of the clock, and the instant at which the clock stops advancing
Quantum == FAST_MS
MaxTime == MaxSteps * Quantum

VARIABLES
    now,        \* the monotonic clock (Instant::now())
    starttime,  \* CubeTimer.starttime : Option<Instant>
    on,         \* CubeTimer.on
    lasttime,   \* CubeTimer.lasttime
    ret,        \* what the last call of CubeTimer::space_press returned
    tick_rate,  \* app.tick_rate
    times,      \* app.times : Vec<Time>
    last_tick,  \* run: last_tick
    timeout,    \* run: timeout, as passed to event::poll
    pc,         \* position of run in its loop
    result,     \* the value run matched on in its space arm (Some(t) / None)
    shown,      \* the timer text drawn by the last terminal.draw
    t_on,       \* history: clock value at the stopped->running toggle of the
                \* interval being timed (0 while stopped)
    stops,      \* history: number of running->stopped toggles so far
    ticks,      \* history: calls of on_tick in the current iteration
    ev,         \* history: what event::poll brought, until the heartbeat
                \* condition is reached: "timeout", "event" or the key read
                \* ("none" otherwise)
    trace       \* history: the steps done since the last redraw, in order

vars == <<now, starttime, on, lasttime, ret, tick_rate, times, last_tick,
          timeout, pc, result, shown, t_on, stops, ticks, ev, trace>>

None == <<>>
Some(v) == <<v>>
IsSome(o) == o /= <<>>
Unwrap(o) == o[1]

\* return values of space_press: () for timer.rs as it stands; the caller in
\* run matches an Option
NoCall == [kind |-> "nocall", val |-> 0]
Unit == [kind |-> "unit", val |-> 0]
RetNone == [kind |-> "none", val |-> 0]
RetSome(v) == [kind |-> "some", val |-> v]

\* ------------------------------------------------------------- CubeTimer
\* a timer is the record [starttime, on, lasttime]

\* CubeTimer::default
default == [starttime |-> None, on |-> FALSE, lasttime |-> 0]

\* Instant::elapsed on a stored instant v, read at clock value t
InstantElapsed(v, t) == t - v

\* CubeTimer::elapsed
elapsed(self, t) ==
    IF IsSome(self.starttime) THEN InstantElapsed(Unwrap(self.starttime), t)
    ELSE 0

timer_on_resets_last(self, t) ==
    [self EXCEPT !.on = TRUE, !.starttime = Some(t), !.lasttime = 0]

\* CubeTimer::timer_on
timer_on(self, t) == [self EXCEPT !.on = TRUE, !.starttime = Some(t)]

timer_off_keeps_start(self, t) ==
    [self EXCEPT !.on = FALSE, !.lasttime = elapsed(self, t)]

timer_off_no_lasttime(self, t) ==
    [self EXCEPT !.on = FALSE, !.starttime = None]

timer_off_clears_first(self, t) ==
    LET cleared == [self EXCEPT !.on = FALSE, !.starttime = None]
    IN  [cleared EXCEPT !.lasttime = elapsed(cleared, t)]

\* CubeTimer::timer_off: on, then lasttime from elapsed(), then starttime
timer_off(self, t) ==
    LET s1 == [self EXCEPT !.on = FALSE]
        s2 == [s1 EXCEPT !.lasttime = elapsed(s1, t)]
    IN  [s2 EXCEPT !.starttime = None]

\* CubeTimer::space_press: the state it leaves
space_press(self, t) ==
    IF self.on THEN timer_off(self, t) ELSE timer_on(self, t)

\* CubeTimer::space_press: the value it returns (the function has no return
\* type, so the unit value)
space_press_ret(self, t) == Unit

\* ------------------------------------------------------------ formatting
DigitChars == <<"0", "1", "2", "3", "4", "5", "6", "7", "8", "9">>

Pow10(p) == IF p = 0 THEN 1 ELSE IF p = 1 THEN 10 ELSE IF p = 2 THEN 100 ELSE 1000

RECURSIVE Digits(_)
\* the decimal digits of a natural number, most significant first
Digits(n) ==
    IF n < 10 THEN <<DigitChars[n + 1]>>
    ELSE Append(Digits(n \div 10), DigitChars[(n % 10) + 1])

RECURSIVE Padded(_, _)
\* n written with exactly p digits (n < 10^p)
Padded(n, p) ==
    IF p = 0 THEN <<>>
    ELSE Append(Padded(n \div 10, p - 1), DigitChars[(n % 10) + 1])

\* ms / 10^(3-p) rounded to the nearest integer, a tie going to the even one
RoundScaled(ms, p) ==
    LET unit == Pow10(3 - p)
        q == ms \div unit
        r == ms % unit
    IN  IF 2 * r > unit \/ (2 * r = unit /\ q % 2 = 1) THEN q + 1 ELSE q

\* format!("{:.p}", d.as_secs_f32()) of a duration of ms milliseconds, as the
\* sequence of its characters
FormatSecs(ms, p) ==
    LET n == RoundScaled(ms, p)
    IN  Digits(n \div Pow10(p)) \o <<".">> \o Padded(n % Pow10(p), p)

text_by_flag_swapped(self, t) ==
    IF IsSome(self.starttime)
    THEN FormatSecs(InstantElapsed(Unwrap(self.starttime), t), 3)
    ELSE FormatSecs(self.lasttime, 1)

\* CubeTimer::text
text(self, t) ==
    IF IsSome(self.starttime)
    THEN FormatSecs(InstantElapsed(Unwrap(self.starttime), t), 1)
    ELSE FormatSecs(self.lasttime, 3)

\* ------------------------------------------------------- Time, gen_stats
RECURSIVE SumSeq(_)
SumSeq(s) == IF s = <<>> THEN 0 ELSE Head(s) + SumSeq(Tail(s))

\* the last n elements of s (n <= Len(s))
LastN(s, n) == SubSeq(s, Len(s) - n + 1, Len(s))

\* the times of a history, in order
TimesOf(h) == [i \in 1..Len(h) |-> h[i].time]

\* average of n: the n-1 most recent prior times and the new one, sorted, the
\* best and the worst dropped, the mean of the n-2 left (kept as sum and count)
AoN(prior, t, n) ==
    IF Len(prior) + 1 < n THEN None
    ELSE LET window == Append(LastN(prior, n - 1), t)
             sorted == SortSeq(window, LAMBDA a, b: a < b)
             kept == SubSeq(sorted, 2, n - 1)
         IN  Some([sum |-> SumSeq(kept), n |-> n - 2])

\* a Time fresh from the stopwatch
NewTime(ms) == [time |-> ms, ao5 |-> None, ao12 |-> None]

\* Time::gen_stats(&mut self, &app.times)
gen_stats(t, h) ==
    [t EXCEPT !.ao5 = AoN(TimesOf(h), t.time, 5),
              !.ao12 = AoN(TimesOf(h), t.time, 12)]

\* the Option that run matches on after app.timer.space_press(): the finished
\* solve when the call stopped the timer, None when it started it
space_press_result(self, t) ==
    IF self.on THEN RetSome(elapsed(self, t)) ELSE RetNone

\* ------------------------------------------------------------------- run
\* Duration::checked_sub
checked_sub(a, b) == IF a >= b THEN Some(a - b) ELSE None

poll_timeout_swapped(rate, tick, t) ==
    LET d == checked_sub(InstantElapsed(tick, t), rate)
    IN  IF IsSome(d) THEN Unwrap(d) ELSE 0

poll_timeout_unfloored(rate, tick, t) == rate - InstantElapsed(tick, t)

\* run: the timeout handed to event::poll
poll_timeout(rate, tick, t) ==
    LET d == checked_sub(rate, InstantElapsed(tick, t))
    IN  IF IsSome(d) THEN Unwrap(d) ELSE 0

tick_due_always(rate, tick, t) == TRUE

\* run: the condition of the heartbeat
tick_due(rate, tick, t) == InstantElapsed(tick, t) >= rate

rate_after_space_always_slow(res) == SLOW_MS

rate_after_space_swapped(res) == IF res.kind = "some" THEN FAST_MS ELSE SLOW_MS

\* run, space arm: the tick rate it sets
rate_after_space(res) == IF res.kind = "some" THEN SLOW_MS ELSE FAST_MS

times_after_space_no_stats(h, res) ==
    IF res.kind = "some" THEN Append(h, NewTime(res.val)) ELSE h

times_after_space_push_first(h, res) ==
    IF res.kind = "some"
    THEN Append(h, gen_stats(NewTime(res.val), Append(h, NewTime(res.val))))
    ELSE h

times_after_space_always(h, res) == Append(h, gen_stats(NewTime(res.val), h))

times_after_space_front(h, res) ==
    IF res.kind = "some" THEN <<gen_stats(NewTime(res.val), h)>> \o h ELSE h

\* run, space arm: the history it leaves (gen_stats, then push)
times_after_space(h, res) ==
    IF res.kind = "some" THEN Append(h, gen_stats(NewTime(res.val), h)) ELSE h

after_tick_before_input(p) ==
    CASE p = "draw" -> "tick"
      [] p = "tick" -> "timeout"
      [] p = "on_tick" -> "timeout"
      [] p = "timeout" -> "poll"
      [] OTHER -> "draw"

after_poll_again(p) ==
    CASE p = "draw" -> "timeout"
      [] p = "timeout" -> "poll"
      [] p = "poll" -> "timeout"
      [] OTHER -> "draw"

\* run: the order of the statements of the loop body (redraw, timeout, poll
\* and match, heartbeat condition, heartbeat, back to the top)
after(p) ==
    CASE p = "draw" -> "timeout"
      [] p = "timeout" -> "poll"
      [] p = "poll" -> "tick"
      [] OTHER -> "draw"

key_arm_esc_quits(k) ==
    CASE k \in {"q", "Esc"} -> "quit"
      [] k = " " -> "space"
      [] k = "Enter" -> "enter"
      [] k \in {"h", "j", "k", "l"} -> "mv"
      [] OTHER -> "nothing"

key_arm_j_toggles(k) ==
    CASE k = "q" -> "quit"
      [] k \in {" ", "j"} -> "space"
      [] k = "Esc" -> "esc"
      [] k = "Enter" -> "enter"
      [] k \in {"h", "k", "l"} -> "mv"
      [] OTHER -> "nothing"

\* run: the arm of match key.code that a key takes
key_arm(k) ==
    CASE k = "q" -> "quit"
      [] k = " " -> "space"
      [] k = "Esc" -> "esc"
      [] k = "Enter" -> "enter"
      [] k \in {"h", "j", "k", "l"} -> "mv"
      [] OTHER -> "nothing"

\* app.route.esc(), app.route.enter(), app.mv(dir): navigation, which leaves
\* the tick rate, the history and the stopwatch of the app alone
nav(a, arm) == a

\* render_bests: the text of the panel "PB Single", as handed to render_stat
pb_single_text(h) == <<"p", "b", " ", "s", "i", "n", "g", "l", "e">>

timer == [starttime |-> starttime, on |-> on, lasttime |-> lasttime]

\* keys of the match in run other than 'q' and ' ' ("x" for the arm _)
OtherKeys == {"Esc", "Enter", "h", "j", "k", "l", "x"}

\* the keys event::read can bring
Keys == {"q", " "} \cup OtherKeys

\* the waits after which event::poll(d) can return true
Waits(d) == {w \in 0..d : w % Quantum = 0}

Init ==
    /\ now = 0
    /\ starttime = default.starttime
    /\ on = default.on
    /\ lasttime = default.lasttime
    /\ ret = NoCall
    /\ tick_rate = INIT_TICK_MS
    /\ times = <<>>
    /\ last_tick = 0
    /\ timeout = 0
    /\ pc = "draw"
    /\ result = NoCall
    /\ shown = <<>>
    /\ t_on = 0
    /\ stops = 0
    /\ ticks = 0
    /\ ev = "none"
    /\ trace = <<>>

\* the clock moves on between two statements of the loop
Advance ==
    /\ pc \in {"draw", "timeout", "tick", "on_tick"}
    /\ now + Quantum <= MaxTime
    /\ now' = now + Quantum
    /\ UNCHANGED <<starttime, on, lasttime, ret, tick_rate, times, last_tick,
                   timeout, pc, result, shown, t_on, stops, ticks, ev, trace>>

\* terminal.draw(|f| ui(f, &mut app)): render_timer shows app.timer.text()
Draw ==
    /\ pc = "draw"
    /\ shown' = text(timer, now)
    /\ ticks' = 0
    /\ trace' = <<"draw">>
    /\ pc' = after(pc)
    /\ UNCHANGED <<now, starttime, on, lasttime, ret, tick_rate, times,
                   last_tick, timeout, result, t_on, stops, ev>>

\* let timeout = app.tick_rate.checked_sub(last_tick.elapsed()).unwrap_or_else(..)
ComputeTimeout ==
    /\ pc = "timeout"
    /\ timeout' = poll_timeout(tick_rate, last_tick, now)
    /\ pc' = after(pc)
    /\ UNCHANGED <<now, starttime, on, lasttime, ret, tick_rate, times,
                   last_tick, result, shown, t_on, stops, ticks, ev, trace>>

\* event::poll(timeout) returns false after the whole timeout
PollTimeout ==
    /\ pc = "poll"
    /\ now + timeout <= MaxTime
    /\ now' = now + timeout
    /\ ev' = "timeout"
    /\ trace' = Append(trace, "input")
    /\ pc' = after(pc)
    /\ UNCHANGED <<starttime, on, lasttime, ret, tick_rate, times, last_tick,
                   timeout, result, shown, t_on, stops, ticks>>

\* event::poll returns true after w, the event read is not a key
OtherEvent ==
    /\ pc = "poll"
    /\ \E w \in Waits(timeout) :
        /\ now + w <= MaxTime
        /\ now' = now + w
    /\ ev' = "event"
    /\ trace' = Append(trace, "input")
    /\ pc' = after(pc)
    /\ UNCHANGED <<starttime, on, lasttime, ret, tick_rate, times, last_tick,
                   timeout, result, shown, t_on, stops, ticks>>

\* KeyCode::Char('q') => return Ok(())
KeyQuit ==
    /\ pc = "poll"
    /\ \E k \in Keys, w \in Waits(timeout) :
        /\ key_arm(k) = "quit"
        /\ now + w <= MaxTime
        /\ now' = now + w
        /\ ev' = k
    /\ trace' = Append(trace, "input")
    /\ pc' = "done"
    /\ UNCHANGED <<starttime, on, lasttime, ret, tick_rate, times, last_tick,
                   timeout, result, shown, t_on, stops, ticks>>

\* KeyCode::Char(' ') => match app.timer.space_press() { .. }
KeySpace ==
    /\ pc = "poll"
    /\ on => Len(times) < MaxSolves
    /\ \E k \in Keys, w \in Waits(timeout) :
        /\ key_arm(k) = "space"
        /\ now + w <= MaxTime
        /\ now' = now + w
        /\ ev' = k
        /\ LET next == space_press(timer, now')
               res == space_press_result(timer, now')
           IN  /\ starttime' = next.starttime
               /\ on' = next.on
               /\ lasttime' = next.lasttime
               /\ ret' = space_press_ret(timer, now')
               /\ result' = res
               /\ times' = times_after_space(times, res)
               /\ tick_rate' = rate_after_space(res)
               /\ t_on' = IF on THEN 0 ELSE now'
               /\ stops' = IF on THEN stops + 1 ELSE stops
    /\ trace' = Append(trace, "input")
    /\ pc' = after(pc)
    /\ UNCHANGED <<last_tick, timeout, shown, ticks>>

\* Esc, Enter, h, j, k, l go to app.route / app.mv; any other key does nothing
KeyOther ==
    /\ pc = "poll"
    /\ \E k \in Keys, w \in Waits(timeout) :
        /\ key_arm(k) \in {"esc", "enter", "mv", "nothing"}
        /\ now + w <= MaxTime
        /\ now' = now + w
        /\ ev' = k
        /\ LET a == nav([tick_rate |-> tick_rate, times |-> times,
                         timer |-> timer], key_arm(k))
           IN  /\ tick_rate' = a.tick_rate
               /\ times' = a.times
               /\ starttime' = a.timer.starttime
               /\ on' = a.timer.on
               /\ lasttime' = a.timer.lasttime
    /\ trace' = Append(trace, "input")
    /\ pc' = after(pc)
    /\ UNCHANGED <<ret, last_tick, timeout, result, shown, t_on, stops, ticks>>

\* if last_tick.elapsed() >= app.tick_rate { .. }
TickCheck ==
    /\ pc = "tick"
    /\ trace' = Append(trace, "tick")
    /\ ev' = "none"
    /\ pc' = IF tick_due(tick_rate, last_tick, now) THEN "on_tick" ELSE after(pc)
    /\ UNCHANGED <<now, starttime, on, lasttime, ret, tick_rate, times,
                   last_tick, timeout, result, shown, t_on, stops, ticks>>

\* app.on_tick(); last_tick = Instant::now();
OnTick ==
    /\ pc = "on_tick"
    /\ ticks' = ticks + 1
    /\ last_tick' = now
    /\ trace' = Append(trace, "beat")
    /\ pc' = after(pc)
    /\ UNCHANGED <<now, starttime, on, lasttime, ret, tick_rate, times,
                   timeout, result, shown, t_on, stops, ev>>

Next ==
    \/ Advance
    \/ Draw
    \/ ComputeTimeout
    \/ PollTimeout
    \/ OtherEvent
    \/ KeyQuit
    \/ KeySpace
    \/ KeyOther
    \/ TickCheck
    \/ OnTick

Spec == Init /\ [][Next]_vars

\* the solve times fed to the statistics, for the k-th record
SolveTimes(k) ==
    IF k <= MaxVaried THEN {Quantum, 2 * Quantum, 3 * Quantum}
    ELSE {Quantum, 3 * Quantum}

\* the Some arm of the space key in run, for a solve of d ms just finished:
\* t.gen_stats(&app.times); app.times.push(t); app.tick_rate = 1000 ms
RecordSolve ==
    /\ Len(times) < MaxRecords
    /\ \E d \in SolveTimes(Len(times) + 1) :
        LET res == RetSome(d)
        IN  /\ result' = res
            /\ lasttime' = d
            /\ times' = times_after_space(times, res)
            /\ tick_rate' = rate_after_space(res)
    /\ stops' = stops + 1
    /\ UNCHANGED <<now, starttime, on, ret, last_tick, timeout, pc, shown,
                   t_on, ticks, ev, trace>>

NextStats == RecordSolve

\* the history and its statistics alone, one finished solve after the other
SpecStats == Init /\ [][NextStats]_vars

TypeOK ==
    /\ now \in 0..MaxTime
    /\ on \in BOOLEAN
    /\ pc \in {"draw", "timeout", "poll", "tick", "on_tick", "done"}
    /\ Len(times) <= MaxSolves

\* ------------------------------------------------- reading a text back
\* position of the decimal point in a text
DotPos(s) == CHOOSE i \in 1..Len(s) : s[i] = "."

\* number of characters after the decimal point
Decimals(s) == Len(s) - DotPos(s)

\* the value of a digit character
DigitVal(c) == CHOOSE d \in 0..9 : DigitChars[d + 1] = c

RECURSIVE ParseNat(_)
ParseNat(s) ==
    IF s = <<>> THEN 0
    ELSE 10 * ParseNat(SubSeq(s, 1, Len(s) - 1)) + DigitVal(s[Len(s)])

\* <digits>.<digits>, one decimal point, at least one digit before it
WellFormed(s) ==
    /\ Cardinality({i \in 1..Len(s) : s[i] = "."}) = 1
    /\ DotPos(s) > 1
    /\ \A i \in 1..Len(s) : i /= DotPos(s) =>
            \E d \in 0..9 : DigitChars[d + 1] = s[i]

\* the text read as a number of milliseconds
ParseMs(s) ==
    LET whole == ParseNat(SubSeq(s, 1, DotPos(s) - 1))
        frac == ParseNat(SubSeq(s, DotPos(s) + 1, Len(s)))
    IN  whole * 1000 + frac * Pow10(3 - Decimals(s))

Abs(x) == IF x < 0 THEN -x ELSE x

IsPrefix(a, b) ==
    /\ Len(a) <= Len(b)
    /\ \A i \in 1..Len(a) : b[i] = a[i]

\* ------------------------------------------------------------------ claims

\* C1: in every state reached from CubeTimer::default() by space_press calls,
\* starttime is Some if and only if on is true.
C1_StartIffOn == IsSome(starttime) <=> on

\* the timer runs again after a completed solve
C1_Witness == on /\ IsSome(starttime) /\ stops >= 1 /\ ret = Unit

C3_ReturnObservable ==
    ret /= NoCall =>
        IF on THEN ret = RetNone ELSE ret = RetSome(lasttime)

C5_AppendOnly == [][IsPrefix(times, times')]_vars

\* a second record was appended behind a different first one
C5_Witness == Len(times) = 2 /\ times[1].time /= times[2].time

\* C6: a running->stopped toggle at t2 after the start toggle at t1 sets
\* lasttime to t2 - t1 and leaves the stopwatch stopped.
C6_ToggleSymmetry ==
    [][stops' /= stops => (lasttime' = now' - t_on /\ on' = FALSE)]_vars

\* a solve of three grains has been timed
C6_Witness == ~on /\ stops >= 1 /\ lasttime = 3 * Quantum

\* C7: text() is the live elapsed time with one decimal while the stopwatch
\* runs, and lasttime with three decimals while it is stopped.
C7_DisplayPrecision ==
    LET s == text(timer, now)
    IN  /\ WellFormed(s)
        /\ IF on
           THEN /\ Decimals(s) = 1
                /\ IsSome(starttime)
                /\ 2 * Abs(ParseMs(s) - (now - t_on)) <= 100
           ELSE /\ Decimals(s) = 3
                /\ ParseMs(s) = lasttime

\* the second solve is running and the last redraw showed 0.2
C7_Witness == on /\ lasttime >= Quantum /\ shown = <<"0", ".", "2">>

\* C8: the timeout handed to poll is tick_rate - (now - last_tick), or zero
\* when that is negative; it is never negative and never above tick_rate.
C8_PollTimeout ==
    pc = "poll" =>
        LET d == tick_rate - (now - last_tick)
        IN  /\ timeout = IF d >= 0 THEN d ELSE 0
            /\ timeout >= 0
            /\ timeout <= tick_rate

\* the subtraction would be negative, and zero is passed
C8_Witness ==
    pc = "poll" /\ tick_rate - (now - last_tick) < 0 /\ timeout = 0

C10_Heartbeat ==
    [][/\ ticks' <= 1
       /\ (ticks' = ticks + 1) =>
            /\ now - last_tick >= tick_rate
            /\ last_tick' = now'
       /\ (last_tick' /= last_tick) => ticks' = ticks + 1]_vars

\* a heartbeat at the fast rate, one fast interval after the start toggle
C10_Witness ==
    /\ ticks = 1
    /\ pc = "draw"
    /\ on
    /\ last_tick = now
    /\ now = t_on + FAST_MS

\* C11: in every iteration the redraw comes first and once, input handling
\* after it and the heartbeat evaluation after input handling; until input is
\* handled the text on screen is the one of the stopwatch state the iteration
\* started with.
C11_IterationOrder ==
    /\ trace \in {<<>>, <<"draw">>, <<"draw", "input">>,
                  <<"draw", "input", "tick">>,
                  <<"draw", "input", "tick", "beat">>}
    /\ pc \in {"timeout", "poll"} =>
        /\ trace = <<"draw">>
        /\ IF on
           THEN /\ Decimals(shown) = 1
                /\ 2 * (ParseMs(shown) - (now - t_on)) <= 100
           ELSE shown = FormatSecs(lasttime, 3)

\* the stop toggle of this iteration is handled, the screen still shows the
\* running text drawn at its start, the heartbeat is not yet evaluated
C11_Witness ==
    /\ pc = "tick"
    /\ trace = <<"draw", "input">>
    /\ ~on
    /\ stops >= 1
    /\ Decimals(shown) = 1

\* C14 as claimed: when run has returned after the quit key, the heartbeat
\* evaluation of that iteration has run.
C14_QuitAfterIteration ==
    pc = "done" => \E i \in 1..Len(trace) : trace[i] = "tick"

\* C14, amended: run returns only on the key q, and it returns from inside
\* input handling, before the heartbeat evaluation of that iteration.
C14_QuitReturnsAtOnce ==
    pc = "done" => (ev = "q" /\ trace = <<"draw", "input">>)

\* run has returned although a heartbeat was due
C14_Witness == pc = "done" /\ ev = "q" /\ now - last_tick >= tick_rate

\* C15: handling Esc, Enter, h, j, k, l or an unmapped key leaves tick_rate,
\* last_tick, the stopwatch and the history unchanged.
C15_OtherKeysFrame ==
    [][(pc = "poll" /\ ev' \in OtherKeys) =>
            UNCHANGED <<tick_rate, last_tick, starttime, on, lasttime,
                        times>>]_vars

\* the key j was handled while the stopwatch was running, after a solve
C15_Witness == pc = "tick" /\ ev = "j" /\ on /\ Len(times) = 1

\* C20: between two redraws at most one event is consumed: the stopwatch,
\* the history and the tick rate change only in the first input step after
\* a redraw.
C20_OneEventPerIteration ==
    [][(on' /= on \/ times' /= times \/ tick_rate' /= tick_rate
            \/ stops' /= stops \/ ev' \notin {ev, "none"}) =>
        (trace = <<"draw">> /\ trace' = <<"draw", "input">>)]_vars

\* an iteration is over in which the one key read stopped the stopwatch
C20_Witness ==
    /\ pc = "draw"
    /\ trace = <<"draw", "input", "tick">>
    /\ ~on
    /\ Decimals(shown) = 1

\* the smallest time of a non-empty history
MinTime(h) == CHOOSE m \in {h[i].time : i \in 1..Len(h)} :
                  \A i \in 1..Len(h) : m <= h[i].time

C17_PersonalBest ==
    Len(times) >= 1 =>
        /\ WellFormed(pb_single_text(times))
        /\ ParseMs(pb_single_text(times)) = MinTime(times)

\* C18: lasttime is zero at creation and until the first running->stopped
\* toggle, changes on such a toggle only, to the interval that ended, and is
\* left alone by a stopped->running toggle.
C18_LastDurationFrame ==
    /\ lasttime = 0
    /\ [][/\ stops' = stops => lasttime' = lasttime
          /\ stops' = 0 => lasttime' = 0
          /\ stops' /= stops => lasttime' = now' - t_on]_vars

\* the stopwatch was started again and still holds the 200 ms of the solve
\* before
C18_Witness == on /\ stops = 1 /\ lasttime = 2 * Quantum /\ now > t_on

\* C19: when poll returns on its timeout the heartbeat is due at the check of
\* the same iteration, and whatever was read, a check made at or after
\* last_tick + tick_rate leads to on_tick in that iteration.
C19_HeartbeatNotStarved ==
    [][/\ (pc' = "tick" /\ ev' = "timeout") =>
            now' - last_tick' >= tick_rate'
       /\ (pc = "tick" /\ pc' /= "tick" /\ now - last_tick >= tick_rate) =>
            pc' = "on_tick"
       /\ (pc = "on_tick" /\ pc' /= "on_tick") =>
            (ticks' = ticks + 1 /\ last_tick' = now)]_vars

\* poll waited a positive timeout to its end and the heartbeat is now due
C19_Witness ==
    /\ pc = "tick"
    /\ ev = "timeout"
    /\ timeout > 0
    /\ now - last_tick = tick_rate

\* the smallest and the largest element of a non-empty sequence of numbers
MinOf(w) == CHOOSE m \in {w[i] : i \in 1..Len(w)} : \A i \in 1..Len(w) : m <= w[i]
MaxOf(w) == CHOOSE m \in {w[i] : i \in 1..Len(w)} : \A i \in 1..Len(w) : m >= w[i]

\* the n times that end with the k-th one
WindowAt(h, k, n) == SubSeq(TimesOf(h), k - n + 1, k)

\* the ao of window size n claimed for the k-th record (k >= n)
TrimmedMean(h, k, n) ==
    LET w == WindowAt(h, k, n)
    IN  Some([sum |-> SumSeq(w) - MinOf(w) - MaxOf(w), n |-> n - 2])

\* C12: the k-th record has an ao5 exactly when k >= 5 and an ao12 exactly
\* when k >= 12, the statistics being computed on the history before the push.
C12_UndefinedBelowWindow ==
    \A k \in 1..Len(times) :
        /\ IsSome(times[k].ao5) <=> k >= 5
        /\ IsSome(times[k].ao12) <=> k >= 12

\* twelve records: the 4th without ao5, the 5th with, the 11th without ao12,
\* the 12th with
C12_Witness ==
    /\ Len(times) = 12
    /\ times[4].ao5 = None
    /\ IsSome(times[5].ao5)
    /\ times[11].ao12 = None
    /\ IsSome(times[12].ao12)

\* C13: with n times available (n = 5, 12) the aon of a record is the mean of
\* the n-2 values left when one smallest and one largest value are taken out
\* of the window of the n most recent times, the new one included.
C13_TrimmedMean ==
    \A k \in 1..Len(times) :
        /\ k >= 5 => times[k].ao5 = TrimmedMean(times, k, 5)
        /\ k >= 12 => times[k].ao12 = TrimmedMean(times, k, 12)

\* a window of five with the best and the worst time twice, and an ao12
C13_Witness ==
    /\ Len(times) = 12
    /\ WindowAt(times, 5, 5) =
            <<Quantum, Quantum, 2 * Quantum, 3 * Quantum, 3 * Quantum>>
    /\ times[5].ao5 = Some([sum |-> 6 * Quantum, n |-> 3])
    /\ IsSome(times[12].ao12)

====
